---- MODULE Spec2Model ----
(***************************************************************************)
(* PostgresStore (langchain/src/vectorstores/postgres.ts): the upsert path *)
(* addDocuments -> addVectors (chunked MERGE writes) and the read path     *)
(* similaritySearchVectorWithScore, against a store handle (pg Client) and *)
(* an embedding provider that are the environment of the class.            *)
(***************************************************************************)
EXTENDS Integers, Sequences, FiniteSets, TLC

(* ------------------------------ bounds -------------------------------- *)
\* calls (addDocuments or similaritySearchVectorWithScore) in one behaviour
MaxCalls == 2
\* input lengths go up to MaxChunks full chunks plus one document
MaxChunks == 1
\* the largest row limit k a search is called with
MaxK == 2
\* the store may start its unordered scan at heap offsets 0..MaxScanStart
MaxScanStart == 1
\* calls in one behaviour when the provider may break its contract
MaxMismatchCalls == 1

(* -------------------------- program constants ------------------------- *)
\* const chunkSize = 200
chunkSize == 200

(* ------------------------------ inputs -------------------------------- *)
Min(a, b) == IF a < b THEN a ELSE b

\* document counts: none, one, two, and at each chunk boundary a full last
\* chunk and one document more
Lens == {0, 1, 2} \cup {c * chunkSize + d : c \in 1..MaxChunks, d \in {0, 1}}

MaxDocs == chunkSize * MaxChunks + 1

\* a document sequence repeats its contents with period p: p = 1 is the same
\* text n times, p = MaxDocs is n different texts
Periods == {1, MaxDocs}

\* metadata values (opaque, compared by equality)
Metas == {1, 2}

\* Document[]: documents[idx] = { pageContent, metadata }
GenDocs(n, p, m) ==
    [idx \in 1..n |-> [pageContent |-> ((idx - 1) % p) + 1, metadata |-> m]]

\* embeddings are unit vectors, so that the cosine of two of them is their
\* dot product
Vecs == << <<1, 0>>, <<0, 1>>, <<-1, 0>>, <<0, -1>> >>

\* the embedding models the provider may be running
Models == {1, 2}

\* what model e makes of one text
EmbedText(e, text) == Vecs[((text + e) % Len(Vecs)) + 1]

\* embeddings.embedDocuments(texts) returning cnt vectors; the provider's
\* contract is cnt = Len(texts)
EmbedDocuments(e, texts, cnt) ==
    [idx \in 1..cnt |-> EmbedText(e, IF idx <= Len(texts) THEN texts[idx] ELSE idx)]

\* errors the store handle raises for a write
StoreErrors == {"store unavailable"}

\* errors the store handle raises for a similarity query
QueryErrors == {"store unavailable", "malformed vector"}

\* "MERGE command cannot affect row a second time"
CardinalityViolation == "cardinality violation"

(* ------------------------------- state -------------------------------- *)
VARIABLES
    pc,            \* where the one caller is: idle, embedding, loop, writing, searching
    op,            \* the operation in progress or last completed: none, upsert, search
    calls,         \* calls started so far
    documents,     \* addDocuments/addVectors argument
    vectors,       \* addVectors argument (the provider's answer)
    rows,          \* addVectors: const rows
    i,             \* addVectors: the loop index
    pending,       \* merge writes sent to the store and not yet answered
    writeLog,      \* merge writes sent to the store by the current call, in order
    failedAt,      \* loop index of the chunk whose write failed in this call, or -1
    cause,         \* the store error of the failed write or query, or "none"
    table,         \* the stored rows, in heap order
    nextId,        \* the store's id generator
    tableAtStart,  \* the table when the current call started
    query,         \* similaritySearchVectorWithScore argument
    k,             \* similaritySearchVectorWithScore argument
    queryLog,      \* similarity queries sent to the store by the current call
    result,        \* what the last completed call gave its caller
    prev           \* the call completed before the current one

vars == << pc, op, calls, documents, vectors, rows, i, pending, writeLog, failedAt,
           cause, table, nextId, tableAtStart, query, k, queryLog, result, prev >>

NoResult == [status |-> "none", error |-> <<>>, value |-> <<>>]
Resolved(v) == [status |-> "ok", error |-> <<>>, value |-> v]
Rejected(e) == [status |-> "error", error |-> e, value |-> <<>>]

\* a store constructed on an empty table, no call made yet
Init ==
    /\ pc = "idle"
    /\ op = "none"
    /\ calls = 0
    /\ documents = <<>>
    /\ vectors = <<>>
    /\ rows = <<>>
    /\ i = 0
    /\ pending = <<>>
    /\ writeLog = <<>>
    /\ failedAt = -1
    /\ cause = "none"
    /\ table = <<>>
    /\ nextId = 1
    /\ tableAtStart = <<>>
    /\ query = <<>>
    /\ k = 0
    /\ queryLog = <<>>
    /\ result = NoResult
    /\ prev = [op |-> "none", documents |-> <<>>, vectors |-> <<>>, status |-> "none"]

\* the record of the call that just ended, kept when the next one starts
Summary == [op |-> op, documents |-> documents, vectors |-> vectors,
            status |-> result.status]

(* --------------------------- addDocuments ----------------------------- *)
\* const texts = documents.map(({ pageContent }) => pageContent)
Texts(docs) == [idx \in 1..Len(docs) |-> docs[idx].pageContent]

\* addDocuments(documents), up to its await of embeddings.embedDocuments(texts)
AddDocuments(docs) ==
    /\ pc = "idle"
    /\ calls < MaxCalls
    /\ calls' = calls + 1
    /\ prev' = Summary
    /\ op' = "upsert"
    /\ documents' = docs
    /\ vectors' = <<>>
    /\ rows' = <<>>
    /\ i' = 0
    /\ writeLog' = <<>>
    /\ failedAt' = -1
    /\ cause' = "none"
    /\ tableAtStart' = table
    /\ queryLog' = <<>>
    /\ result' = NoResult
    /\ query' = <<>>
    /\ k' = 0
    /\ pc' = "embedding"
    /\ UNCHANGED << pending, table, nextId >>

(* ---------------------------- addVectors ------------------------------ *)
\* vectors.map((embedding, idx) => ...) reads documents[idx].pageContent: with
\* more vectors than documents, documents[idx] is undefined and the read
\* throws a TypeError, before the try block
MapThrows(vs, docs) == Len(vs) > Len(docs)

\* const rows = vectors.map((embedding, idx) => ({ content, embedding, metadata }))
BuildRows(vs, docs) ==
    [idx \in 1..Len(vs) |-> [content   |-> docs[idx].pageContent,
                             embedding |-> vs[idx],
                             metadata  |-> docs[idx].metadata]]

\* addDocuments resumes with the provider's vectors vs and calls addVectors,
\* which builds rows and enters the try block
AddVectors(vs) ==
    /\ pc = "embedding"
    /\ vectors' = vs
    /\ IF MapThrows(vs, documents)
       THEN /\ result' = Rejected(<<"TypeError">>)
            /\ pc' = "idle"
            /\ UNCHANGED rows
       ELSE /\ rows' = BuildRows(vs, documents)
            /\ pc' = "loop"
            /\ UNCHANGED result
    /\ i' = 0
    /\ UNCHANGED << op, calls, documents, pending, writeLog, failedAt, cause, table,
                    nextId, tableAtStart, query, k, queryLog, prev >>

\* the loop test written i <= rows.length
LoopCondInclusive(idx, rs) == idx <= Len(rs)

\* for (...; i < rows.length; ...)
LoopCond(idx, rs) == idx < Len(rs)

\* for (...; ...; i += chunkSize)
NextIndex(idx) == idx + chunkSize

\* the slice written rows.slice(i, i + chunkSize - 1)
ChunkShort(rs, idx) == SubSeq(rs, idx + 1, Min(idx + chunkSize - 1, Len(rs)))

\* rows.slice(i, i + chunkSize)
Chunk(rs, idx) == SubSeq(rs, idx + 1, Min(idx + chunkSize, Len(rs)))

\* client.query(query, [this.tableName, chunk]) is sent; addVectors awaits it
IssueWrite ==
    /\ pc = "loop"
    /\ LoopCond(i, rows)
    /\ pending' = Append(pending, Chunk(rows, i))
    /\ writeLog' = Append(writeLog, Chunk(rows, i))
    /\ pc' = "writing"
    /\ UNCHANGED << op, calls, documents, vectors, rows, i, failedAt, cause, table,
                    nextId, tableAtStart, query, k, queryLog, result, prev >>

\* the loop ends and addVectors resolves
Return ==
    /\ pc = "loop"
    /\ ~LoopCond(i, rows)
    /\ result' = Resolved(<<>>)
    /\ pc' = "idle"
    /\ UNCHANGED << op, calls, documents, vectors, rows, i, pending, writeLog, failedAt,
                    cause, table, nextId, tableAtStart, query, k, queryLog, prev >>

(* ------------------------- the MERGE statement ------------------------ *)
\* ON (d.content = v.content AND d.metadata = v.metadata)
Matches(d, v) == d.content = v.content /\ d.metadata = v.metadata

\* the source rows of the statement that join with stored row d
Sources(d, chunk) == {j \in 1..Len(chunk) : Matches(d, chunk[j])}

\* a source row joins with some stored row
Matched(t, v) == \E r \in 1..Len(t) : Matches(t[r], v)

\* a MERGE may not change one stored row twice: the statement is rejected when
\* two of its source rows join with the same stored row
MergeOk(t, chunk) == \A r \in 1..Len(t) : Cardinality(Sources(t[r], chunk)) <= 1

\* WHEN MATCHED THEN UPDATE SET embedding = v.embedding
Updated(t, chunk) ==
    [r \in 1..Len(t) |->
        LET s == Sources(t[r], chunk)
        IN  IF s = {} THEN t[r]
            ELSE [t[r] EXCEPT !.embedding = chunk[CHOOSE j \in s : TRUE].embedding]]

\* WHEN NOT MATCHED THEN INSERT: the join is taken against the table as it is
\* when the statement starts, so every source row without a stored match is
\* inserted, also when the statement holds the same (content, metadata) twice
NotMatched(t, chunk) == SelectSeq(chunk, LAMBDA v : ~Matched(t, v))

\* the table after the statement; nid is the next generated id
MergeInto(t, chunk, nid) ==
    LET ins == NotMatched(t, chunk)
    IN  Updated(t, chunk) \o
        [j \in 1..Len(ins) |-> [id        |-> nid + j - 1,
                                content   |-> ins[j].content,
                                metadata  |-> ins[j].metadata,
                                embedding |-> ins[j].embedding]]

\* the store commits the write in flight; the loop goes on
WriteOk ==
    /\ pc = "writing"
    /\ MergeOk(table, Head(pending))
    /\ table' = MergeInto(table, Head(pending), nextId)
    /\ nextId' = nextId + Len(NotMatched(table, Head(pending)))
    /\ pending' = Tail(pending)
    /\ i' = NextIndex(i)
    /\ pc' = "loop"
    /\ UNCHANGED << op, calls, documents, vectors, rows, writeLog, failedAt, cause,
                    tableAtStart, query, k, queryLog, result, prev >>

\* the try block written inside the loop body: the loop goes on after a catch
CatchInsideLoop == FALSE

\* the try block encloses the whole for loop: the catch ends the loop
CatchLeavesLoop == TRUE

\* catch (error) { /* throw commented out */ }: the error is dropped and
\* addVectors resolves
CatchAddVectors(err) == Resolved(<<>>)

\* the errors the store may answer the write in flight with
WriteErrors == StoreErrors \cup
    (IF MergeOk(table, Head(pending)) THEN {} ELSE {CardinalityViolation})

\* the store rejects the write in flight (the statement has no effect) and
\* the await throws; a store that takes no table name as the bind parameter
\* $1, or no two values for four placeholders, rejects every write
WriteFail(err) ==
    /\ pc = "writing"
    /\ err \in WriteErrors
    /\ pending' = Tail(pending)
    /\ failedAt' = i
    /\ cause' = err
    /\ IF CatchLeavesLoop
       THEN /\ result' = CatchAddVectors(err)
            /\ pc' = "idle"
            /\ UNCHANGED i
       ELSE /\ i' = NextIndex(i)
            /\ pc' = "loop"
            /\ UNCHANGED result
    /\ UNCHANGED << op, calls, documents, vectors, rows, writeLog, table, nextId,
                    tableAtStart, query, k, queryLog, prev >>

(* ------------------ similaritySearchVectorWithScore ------------------- *)
\* the query vectors searches are made with
Queries == {Vecs[1], Vecs[2]}

\* Number.prototype.toString for the components of the vectors
NumToString(x) == CASE x = -1 -> "-1" [] x = 0 -> "0" [] x = 1 -> "1"

\* query.toString().replace(/\.\.\./g, ""): the components' decimal forms,
\* joined by commas (the sequence stands for the comma-separated text)
FormatVector(q) == [j \in 1..Len(q) |-> NumToString(q[j])]

\* the store reading the vector literal '[...]' back
ParseNumber(str) == CASE str = "-1" -> -1 [] str = "0" -> 0 [] str = "1" -> 1
ParseVector(text) == [j \in 1..Len(text) |-> ParseNumber(text[j])]

\* similaritySearchVectorWithScore(query, k), up to its await of client.query
Search(q, kk) ==
    /\ pc = "idle"
    /\ calls < MaxCalls
    /\ calls' = calls + 1
    /\ prev' = Summary
    /\ op' = "search"
    /\ query' = q
    /\ k' = kk
    /\ queryLog' = <<[vector |-> FormatVector(q), limit |-> kk, params |-> q]>>
    /\ documents' = <<>>
    /\ vectors' = <<>>
    /\ rows' = <<>>
    /\ i' = 0
    /\ writeLog' = <<>>
    /\ failedAt' = -1
    /\ cause' = "none"
    /\ tableAtStart' = table
    /\ result' = NoResult
    /\ pc' = "searching"
    /\ UNCHANGED << pending, table, nextId >>

Dot(a, b) == a[1] * b[1] + a[2] * b[2]

\* embedding <=> literal: the cosine distance (of unit vectors)
CosineDistance(a, b) == 1 - Dot(a, b)

\* 1 - (documents.embedding <=> '[...]') as similarity
Similarity(a, b) == 1 - CosineDistance(a, b)

\* FROM table with no ORDER BY: the rows as the scan meets them, here the heap
\* read round from offset s
Scan(t, s) == SubSeq(t, s + 1, Len(t)) \o SubSeq(t, 1, s)

ScanStarts(t) == {s \in 0..MaxScanStart : s = 0 \/ s < Len(t)}

\* LIMIT k
Limit(rs, kk) == SubSeq(rs, 1, Min(kk, Len(rs)))

\* the rows the statement returns: SELECT *, id, content, metadata, similarity
Select(t, s, text, kk) ==
    LET rs == Limit(Scan(t, s), kk)
    IN  [j \in 1..Len(rs) |-> [id         |-> rs[j].id,
                               content    |-> rs[j].content,
                               metadata   |-> rs[j].metadata,
                               embedding  |-> rs[j].embedding,
                               similarity |-> Similarity(rs[j].embedding,
                                                         ParseVector(text))]]

\* searches.map((resp) => [new Document({ metadata, pageContent }), resp.similarity])
MapSearches(searches) ==
    [j \in 1..Len(searches) |->
        << [metadata    |-> searches[j].metadata,
            pageContent |-> searches[j].content],
           searches[j].similarity >>]

\* the store answers the query with rows; the call resolves with the result
SearchOk(s) ==
    /\ pc = "searching"
    /\ s \in ScanStarts(table)
    /\ result' = Resolved(MapSearches(
                     Select(table, s, queryLog[1].vector, queryLog[1].limit)))
    /\ pc' = "idle"
    /\ UNCHANGED << op, calls, documents, vectors, rows, i, pending, writeLog, failedAt,
                    cause, table, nextId, tableAtStart, query, k, queryLog, prev >>

\* the catch written like addVectors' one: the error is dropped
CatchSearchSwallows(err) == Resolved(<<>>)

\* catch (error) { throw new Error(`Error searching for documents: ${error}`) }
CatchSearch(err) == Rejected(<<"Error searching for documents: ", err>>)

\* the store rejects the query; the await throws (so does a store that takes
\* no bind values for a statement without placeholders, or knows no relation
\* "documents" when tableName is another table)
SearchFail(err) ==
    /\ pc = "searching"
    /\ cause' = err
    /\ result' = CatchSearch(err)
    /\ pc' = "idle"
    /\ UNCHANGED << op, calls, documents, vectors, rows, i, pending, writeLog, failedAt,
                    table, nextId, tableAtStart, query, k, queryLog, prev >>

(* --------------------------- specifications --------------------------- *)
\* the provider keeps its contract: as many vectors as texts
Next ==
    \/ \E n \in Lens, p \in Periods, m \in Metas : AddDocuments(GenDocs(n, p, m))
    \/ \E e \in Models :
          AddVectors(EmbedDocuments(e, Texts(documents), Len(documents)))
    \/ IssueWrite
    \/ WriteOk
    \/ \E err \in StoreErrors \cup {CardinalityViolation} : WriteFail(err)
    \/ Return
    \/ \E q \in Queries, kk \in 0..MaxK : Search(q, kk)
    \/ \E s \in 0..MaxScanStart : SearchOk(s)
    \/ \E err \in QueryErrors : SearchFail(err)

Spec == Init /\ [][Next]_vars

\* the vector counts a provider that breaks its contract may return for n texts
Counts(n) == {c \in {n - 1, n, n + 1} : c >= 0}

\* the provider may return a vector too few or too many
NextMismatch ==
    \/ \E n \in Lens, p \in Periods, m \in Metas :
          calls < MaxMismatchCalls /\ AddDocuments(GenDocs(n, p, m))
    \/ \E e \in Models, c \in Counts(Len(documents)) :
          AddVectors(EmbedDocuments(e, Texts(documents), c))
    \/ IssueWrite
    \/ WriteOk
    \/ \E err \in StoreErrors \cup {CardinalityViolation} : WriteFail(err)
    \/ Return

SpecMismatch == Init /\ [][NextMismatch]_vars

(* ------------------------------ claims -------------------------------- *)
\* two stored rows with the same (content, metadata)
SamePair(a, b) == a.content = b.content /\ a.metadata = b.metadata

\* the stored rows a document's (content, metadata) is the pair of
RowsOf(doc) ==
    {r \in 1..Len(table) : /\ table[r].content = doc.pageContent
                           /\ table[r].metadata = doc.metadata}

C2_WriteFailureReported ==
    (pc = "idle" /\ op = "upsert" /\ failedAt >= 0) =>
        /\ result.status = "error"
        /\ result.error = <<"WriteError", failedAt, cause>>

\* the (content, embedding, metadata) pairs of the call, in input order
InputPairs ==
    [idx \in 1..Len(documents) |-> [content   |-> documents[idx].pageContent,
                                    embedding |-> vectors[idx],
                                    metadata  |-> documents[idx].metadata]]

\* the slice [200*j, min(200*(j+1), n)) of the input pairs
InputSlice(j) ==
    SubSeq(InputPairs, 200 * j + 1, Min(200 * (j + 1), Len(InputPairs)))

CeilDiv(n, d) == (n + d - 1) \div d

\* C3: an upsert of n documents sends its writes one after another, never
\* two in flight; the j-th write carries the input pairs [200*j,
\* min(200*(j+1), n)) in input order; and when no write fails the call sends
\* exactly ceil(n/200) writes (one for 200 documents, two for 201).
C3_ChunkedWrites ==
    (op = "upsert" /\ pc \in {"loop", "writing", "idle"}) =>
        /\ Len(pending) <= 1
        /\ pc = "writing" => pending = <<writeLog[Len(writeLog)]>>
        /\ pc # "writing" => pending = <<>>
        /\ Len(writeLog) <= CeilDiv(Len(documents), 200)
        /\ \A j \in 1..Len(writeLog) : writeLog[j] = InputSlice(j - 1)
        /\ (pc = "idle" /\ failedAt = -1) =>
               Len(writeLog) = CeilDiv(Len(documents), 200)

\* 201 documents were upserted with no failure: two writes, of 200 and of 1
C3_Witness ==
    /\ pc = "idle" /\ op = "upsert" /\ failedAt = -1
    /\ Len(documents) = 201
    /\ Len(writeLog) = 2 /\ Len(writeLog[1]) = 200 /\ Len(writeLog[2]) = 1

\* C4: when the provider returns a number of vectors other than the number
\* of documents, the upsert fails and no write is sent to the store.
C4_MismatchRejected ==
    (op = "upsert" /\ pc # "embedding" /\ Len(vectors) # Len(documents)) =>
        /\ writeLog = <<>>
        /\ pc = "idle" => result.status = "error"

\* the similarity of a stored row to the query of the call
Sim(row) == Similarity(row.embedding, query)

\* row a comes before row b: higher similarity first, then lower id
Before(a, b) == Sim(a) > Sim(b) \/ (Sim(a) = Sim(b) /\ a.id < b.id)

\* the stored rows sorted by descending similarity, ties by ascending id
Ranked ==
    [pos \in 1..Len(table) |->
        table[CHOOSE r \in 1..Len(table) :
                 Cardinality({o \in 1..Len(table) : Before(table[o], table[r])})
                     = pos - 1]]

\* C5: a search with k >= 1 returns exactly min(k, number of stored rows)
\* results, the first of the stored rows sorted by descending similarity
\* with ties by ascending id, in that order.
C5_TopKOrdered ==
    (pc = "idle" /\ op = "search" /\ result.status = "ok" /\ k >= 1) =>
        result.value =
            [pos \in 1..Min(k, Len(table)) |->
                << [metadata    |-> Ranked[pos].metadata,
                    pageContent |-> Ranked[pos].content],
                   Sim(Ranked[pos]) >>]

\* C6: two successive upsert calls of the same (content, metadata) pair with
\* different embeddings leave exactly one stored row for the pair, holding
\* the second call's embedding.
C6_ReembedLeavesOneRow ==
    (/\ pc = "idle" /\ op = "upsert" /\ result.status = "ok"
     /\ prev.op = "upsert" /\ prev.status = "ok"
     /\ Len(documents) = 1 /\ Len(vectors) = 1) =>
        \A b \in 1..Len(prev.documents) :
            (/\ prev.documents[b] = documents[1]
             /\ b <= Len(prev.vectors)
             /\ prev.vectors[b] # vectors[1]) =>
                /\ Cardinality(RowsOf(documents[1])) = 1
                /\ \A r \in RowsOf(documents[1]) : table[r].embedding = vectors[1]

\* C7: a search with k = 0 sends no query to the store and returns an empty
\* sequence.
C7_ZeroKNoQuery ==
    (op = "search" /\ k = 0) =>
        /\ queryLog = <<>>
        /\ pc = "idle" => result = Resolved(<<>>)

\* C8: an upsert of an empty document sequence sends no write to the store,
\* leaves the table as it was and returns success.
C8_EmptyUpsertNoOp ==
    (op = "upsert" /\ documents = <<>>) =>
        /\ writeLog = <<>>
        /\ pending = <<>>
        /\ table = tableAtStart
        /\ pc = "idle" => result = Resolved(<<>>)

\* an empty upsert has returned, on a table that holds rows
C8_Witness ==
    /\ pc = "idle" /\ op = "upsert" /\ documents = <<>>
    /\ result.status = "ok"
    /\ table # <<>>

\* C9: a search whose query fails at the store reports a failure that wraps
\* the store's error, and returns no results.
C9_SearchFailureWrapped ==
    (pc = "idle" /\ op = "search" /\ cause # "none") =>
        /\ result.status = "error"
        /\ result.value = <<>>
        /\ \E j \in 1..Len(result.error) : result.error[j] = cause

\* a search for at least one row failed on a table that holds rows
C9_Witness ==
    /\ pc = "idle" /\ op = "search" /\ cause = "malformed vector"
    /\ k >= 1
    /\ table # <<>>

RECURSIVE Committed(_, _)
\* the table after the first c chunks of the call were merged into t
Committed(t, c) ==
    IF c = 0 THEN t
    ELSE LET before == Committed(t, c - 1)
         IN  MergeInto(before, InputSlice(c - 1), Len(before) + 1)

\* C10: when the write of chunk number c (at offset 200*c) fails, the table
\* holds exactly the effects of chunks 0..c-1 of the call on the table the
\* call started with, and chunk c is the last write the call sent.
C10_PartialProgress ==
    (pc = "idle" /\ op = "upsert" /\ failedAt >= 0) =>
        /\ failedAt % 200 = 0
        /\ table = Committed(tableAtStart, failedAt \div 200)
        /\ Len(writeLog) = failedAt \div 200 + 1

\* the second chunk of a call failed after the first had stored rows
C10_Witness ==
    /\ pc = "idle" /\ op = "upsert" /\ failedAt = 200
    /\ Len(table) > Len(tableAtStart)

====
